---- MODULE Spec2Model ----
(***************************************************************************)
(* The chat session controller of the vite reference template              *)
(* (components/TwinSDKExample.tsx) and its configuration check             *)
(* (lib/twin-sdk.ts), as a state machine.                                  *)
(*                                                                         *)
(* One React component instance is one controller.  Its handlers run to    *)
(* the next await on a single-threaded event loop, so each action below is *)
(* one handler invocation up to its first await, or one continuation after *)
(* an awaited call settled.  The external collaborators (the backend       *)
(* endpoint, the AvatarSessionManager, the clock, the user) are opaque:    *)
(* their outcomes are drawn nondeterministically.                          *)
(*                                                                         *)
(* Strings the code transforms (the input field, event payload texts) are  *)
(* sequences of one-character strings, so that trim() and the `||`         *)
(* defaults are computed; a literal the code never looks inside is a       *)
(* one-symbol sequence, Lit("..."), and "" is <<>> throughout.  An         *)
(* optional value is <<>> (undefined) or <<v>>.                            *)
(* Message.timestamp is read from the same clock as Message.id and is not  *)
(* used by any handler; it is left out of the Message record.              *)
(***************************************************************************)
EXTENDS Integers, Sequences, FiniteSets, TLC

\* ---------------------------------------------------------------- bounds
\* initializeSession attempts started plus transcript entries, at most
MaxOps == 3
\* getPlatformSDK calls, at most
MaxGets == 3

\* ------------------------------------------------------- optional values
None == <<>>
Some(v) == <<v>>

\* ---------------------------------------------------------------- inputs
EmptyStr == <<>>
Lit(s) == <<s>>
ApiKeys == {None, Some(EmptyStr), Some(Lit("sk_xxxxx")), Some(Lit("sk_live_1"))}
AvatarIds == {Lit("your-avatar-id-here"), Lit("avatar-1")}
\* import.meta.env.VITE_PLATFORM_API_URL: undefined, "", a custom host
ApiUrls == {None, Some(EmptyStr), Some(Lit("https://staging.example"))}
\* values of the input field when sendMessage runs: "", " ", "hi", " hi "
Inputs == {EmptyStr, <<" ">>, <<"h", "i">>, <<" ", "h", "i", " ">>}
\* event.data?.text of avatar.input / avatar.response: undefined, "", "hi"
PayloadTexts == {None, Some(EmptyStr), Some(<<"h", "i">>)}
\* event.data?.status of avatar.status
Statuses ==
  {None, Some(Lit("ready")), Some(Lit("initializing")), Some(Lit("Ready"))}
\* event.data?.inputType of avatar.input
InputTypes == {None, Some(Lit("voice")), Some(Lit("text"))}
\* event.data?.message of avatar.error
ErrorTexts == {None, Some(Lit("boom"))}
\* errorData.error of a non-ok backend response
BackendErrors == {None, Some(EmptyStr), Some(Lit("quota exceeded"))}
\* values a rejected promise can carry: an Error with a message, or not one
Thrown == {[isError |-> TRUE, message |-> Lit("socket closed")],
           [isError |-> FALSE, message |-> EmptyStr]}

\* the string literals of the handlers
VoicePlaceholder == Lit("Voice input received")
ResponsePlaceholder == Lit("Response received")

VARIABLES
  apiKey,               \* import.meta.env.VITE_PLATFORM_API_KEY
  DEMO_AVATAR_ID,       \* the avatar id compiled into the component
  mounted,              \* the component is mounted (no teardown yet)
  messages,             \* useState<Message[]>
  isInitializing,       \* useState(false)
  isSending,            \* useState(false)
  isWaitingForResponse, \* useState(false)
  error,                \* useState<string | null>: None or Some(message)
  sessionManagerRef,    \* useRef: 0 is null, i is the manager of call i
  call,                 \* position of each initializeSession invocation
  disconnects,          \* disconnect() calls received by each manager
  pendingSends,         \* manager.sendMessage promises not yet settled
  clock,                \* last value Date.now() returned
  toast,                \* last notification raised
  apiUrl,               \* import.meta.env.VITE_PLATFORM_API_URL
  sdk,                  \* twin-sdk.ts `let sdk`: None or Some(client)
  sdkBuilt,             \* SoulCypherSDK objects constructed
  sdkCalls,             \* getPlatformSDK calls made
  sdkReturn             \* how the last getPlatformSDK call ended

vars == <<apiKey, DEMO_AVATAR_ID, mounted, messages, isInitializing, isSending,
          isWaitingForResponse, error, sessionManagerRef, call, disconnects,
          pendingSends, clock, toast, apiUrl, sdk, sdkBuilt, sdkCalls,
          sdkReturn>>

\* the module-level state of lib/twin-sdk.ts
singleton == <<apiUrl, sdk, sdkBuilt, sdkCalls, sdkReturn>>
\* what no handler of the component writes: the configuration and the
\* module-level singleton
config == <<apiKey, DEMO_AVATAR_ID, singleton>>
\* the state of the component
controller == <<mounted, messages, isInitializing, isSending,
                isWaitingForResponse, error, sessionManagerRef, call,
                disconnects, pendingSends, clock, toast>>
flags == <<isInitializing, isSending, isWaitingForResponse>>

Calls == 1..MaxOps
NoHandle == 0

\* ------------------------------------------------------- pure functions
IsSpace(c) == c \in {" ", "\t", "\n"}

RECURSIVE TrimStart(_)
TrimStart(s) ==
  IF s # <<>> /\ IsSpace(Head(s)) THEN TrimStart(Tail(s)) ELSE s

RECURSIVE TrimEnd(_)
TrimEnd(s) ==
  IF s # <<>> /\ IsSpace(s[Len(s)]) THEN TrimEnd(SubSeq(s, 1, Len(s) - 1)) ELSE s

\* the text used as typed
Trim_None(s) == s

\* String.prototype.trim
Trim(s) == TrimEnd(TrimStart(s))

\* JavaScript truthiness of an optional string: undefined and "" are falsy
Truthy(o) == o # None /\ o[1] # EmptyStr

\* `o || d` on an optional string
OrDefault(o, d) == IF Truthy(o) THEN o[1] ELSE d

\* the check without the placeholder comparison
IsPlatformSDKConfigured_NoSentinel(key) == Truthy(key)

\* isPlatformSDKConfigured(): !!apiKey && apiKey !== 'sk_xxxxx'
IsPlatformSDKConfigured(key) == Truthy(key) /\ key[1] # Lit("sk_xxxxx")

\* const isConfigured = isPlatformSDKConfigured()
isConfigured == IsPlatformSDKConfigured(apiKey)

\* a React state setter: an update on an unmounted component is dropped, so
\* after teardown every state variable keeps its initial value
SetState(old, new) == IF mounted THEN new ELSE old

\* err instanceof Error ? err.message : fallback
ErrMessage(err, fallback) == IF err.isError THEN err.message ELSE fallback

\* the Message built by a handler
Message(id, role, content) == [id |-> id, role |-> role, content |-> content]

\* values Date.now() can return next: time has advanced since the last
\* reading, or it has not
ClockReads == {clock, clock + 1}

\* ------------------------------------------------------ derived counters
\* invocations of initializeSession that issued the backend request
RequestsIssued == Cardinality({i \in Calls : call[i] # "unused"})
\* AvatarSessionManager objects constructed
HandlesConstructed ==
  Cardinality({i \in Calls : call[i] \in {"connect", "done", "connectFailed"}})
\* managers with observers registered whose transport is being or was opened
Emitting == {i \in Calls : call[i] \in {"connect", "done"}}
InitInFlight == {i \in Calls : call[i] \in {"fetch", "connect"}}
NextCall == RequestsIssued + 1
\* the exploration budget is not used up
WithinBounds == RequestsIssued + Len(messages) < MaxOps

\* ------------------------------------------------------------------ Init
Init ==
  /\ apiKey \in ApiKeys
  /\ DEMO_AVATAR_ID \in AvatarIds
  /\ mounted = TRUE
  /\ messages = <<>>
  /\ isInitializing = FALSE
  /\ isSending = FALSE
  /\ isWaitingForResponse = FALSE
  /\ error = None
  /\ sessionManagerRef = NoHandle
  /\ call = [i \in Calls |-> "unused"]
  /\ disconnects = [i \in Calls |-> 0]
  /\ pendingSends = 0
  /\ clock = 0
  /\ toast = "none"
  /\ apiUrl = None
  /\ sdk = None
  /\ sdkBuilt = 0
  /\ sdkCalls = 0
  /\ sdkReturn = [threw |-> FALSE, value |-> None]

\* --------------------------------------------------- initializeSession
\* the guard of initializeSession dropped
AlreadyInitialized_Never == FALSE

\* if (sessionManagerRef.current)
AlreadyInitialized == sessionManagerRef # NoHandle

\* initializeSession up to `await fetch(...)`
InitializeSession ==
  /\ mounted
  /\ IF AlreadyInitialized
       THEN /\ toast' = "info: Session already initialized"
            /\ UNCHANGED <<isInitializing, error, call>>
     ELSE IF ~isConfigured
       THEN /\ toast' = "error: Platform API key not configured"
            /\ UNCHANGED <<isInitializing, error, call>>
     ELSE IF DEMO_AVATAR_ID = Lit("your-avatar-id-here")
       THEN /\ toast' = "error: Avatar ID not configured"
            /\ UNCHANGED <<isInitializing, error, call>>
     ELSE /\ WithinBounds
          /\ isInitializing' = TRUE
          /\ error' = None
          /\ call' = [call EXCEPT ![NextCall] = "fetch"]
          /\ UNCHANGED toast
  /\ UNCHANGED <<config, mounted, messages, isSending, isWaitingForResponse,
                 sessionManagerRef, disconnects, pendingSends, clock>>

\* the catch block without setIsInitializing(false)
InitCatch_NoClear(errorMessage) ==
  /\ error' = SetState(error, Some(errorMessage))
  /\ toast' = "error: Initialization failed"
  /\ UNCHANGED isInitializing

\* the catch block of initializeSession
InitCatch(errorMessage) ==
  /\ error' = SetState(error, Some(errorMessage))
  /\ toast' = "error: Initialization failed"
  /\ isInitializing' = SetState(isInitializing, FALSE)

\* the backend answered ok and its body parsed: the manager is constructed,
\* the observers are registered and connect() is called
FetchOk(i) ==
  /\ call[i] = "fetch"
  /\ call' = [call EXCEPT ![i] = "connect"]
  /\ UNCHANGED <<config, mounted, messages, flags, error, sessionManagerRef,
                 disconnects, pendingSends, clock, toast>>

\* the backend answered with a non-ok status: throw new Error(errorData.error
\* || 'Failed to create session'), caught below
FetchFail(i, errorData) ==
  /\ call[i] = "fetch"
  /\ call' = [call EXCEPT ![i] = "fetchFailed"]
  /\ InitCatch(OrDefault(errorData, Lit("Failed to create session")))
  /\ UNCHANGED <<config, mounted, messages, isSending, isWaitingForResponse,
                 sessionManagerRef, disconnects, pendingSends, clock>>

\* the continuation after connect() without setIsInitializing(false)
ConnectOk_NoClear(i) ==
  /\ call[i] = "connect"
  /\ call' = [call EXCEPT ![i] = "done"]
  /\ sessionManagerRef' = i
  /\ toast' = "success: Session initialized"
  /\ UNCHANGED <<config, mounted, messages, flags, error, disconnects,
                 pendingSends, clock>>

\* the continuation after `await manager.connect()` resolved
ConnectOk(i) ==
  /\ call[i] = "connect"
  /\ call' = [call EXCEPT ![i] = "done"]
  /\ sessionManagerRef' = i
  /\ isInitializing' = SetState(isInitializing, FALSE)
  /\ toast' = "success: Session initialized"
  /\ UNCHANGED <<config, mounted, messages, isSending, isWaitingForResponse,
                 error, disconnects, pendingSends, clock>>

\* manager.connect() rejected with err: the catch block runs
ConnectFail(i, err) ==
  /\ call[i] = "connect"
  /\ call' = [call EXCEPT ![i] = "connectFailed"]
  /\ InitCatch(ErrMessage(err, Lit("Failed to initialize session")))
  /\ UNCHANGED <<config, mounted, messages, isSending, isWaitingForResponse,
                 sessionManagerRef, disconnects, pendingSends, clock>>

\* ------------------------------------------------------ event observers
\* observers run with no manager constructed
Delivering_BeforeConstruction == mounted

\* the manager delivers an event to the observers registered on it
Delivering == mounted /\ Emitting # {}

\* any status taken for readiness
StatusReady_Any(status) == status # None

\* manager.on('avatar.status', ...)
StatusReady(status) == status = Some(Lit("ready"))

StatusEvent(status) ==
  /\ Delivering
  /\ IF StatusReady(status)
       THEN /\ toast' = "success: Avatar is ready!"
            /\ isInitializing' = FALSE
       ELSE UNCHANGED <<toast, isInitializing>>
  /\ UNCHANGED <<config, mounted, messages, isSending, isWaitingForResponse,
                 error, sessionManagerRef, call, disconnects, pendingSends,
                 clock>>

\* the voice message replacing the transcript: setMessages([userMessage])
InputEvent_Reset(inputType, text) ==
  /\ Delivering
  /\ IF inputType = Some(Lit("voice"))
       THEN /\ WithinBounds
            /\ \E t \in ClockReads :
                 /\ clock' = t
                 /\ messages' =
                      <<Message(t, "user", OrDefault(text, VoicePlaceholder))>>
            /\ isWaitingForResponse' = TRUE
       ELSE UNCHANGED <<clock, messages, isWaitingForResponse>>
  /\ UNCHANGED <<config, mounted, isInitializing, isSending, error,
                 sessionManagerRef, call, disconnects, pendingSends, toast>>

\* manager.on('avatar.input', ...)
InputEvent(inputType, text) ==
  /\ Delivering
  /\ IF inputType = Some(Lit("voice"))
       THEN /\ WithinBounds
            /\ \E t \in ClockReads :
                 /\ clock' = t
                 /\ messages' = Append(messages,
                      Message(t, "user", OrDefault(text, VoicePlaceholder)))
            /\ isWaitingForResponse' = TRUE
       ELSE UNCHANGED <<clock, messages, isWaitingForResponse>>
  /\ UNCHANGED <<config, mounted, isInitializing, isSending, error,
                 sessionManagerRef, call, disconnects, pendingSends, toast>>

\* `??` in place of `||`: only an undefined text gets the placeholder
ResponseContent_Nullish(text) ==
  IF text = None THEN ResponsePlaceholder ELSE text[1]

\* content: event.data?.text || 'Response received'
ResponseContent(text) == OrDefault(text, ResponsePlaceholder)

\* manager.on('avatar.response', ...)
ResponseEvent(text) ==
  /\ Delivering
  /\ WithinBounds
  /\ \E t \in ClockReads :
       /\ clock' = t
       /\ messages' = Append(messages,
            Message(t, "assistant", ResponseContent(text)))
  /\ isWaitingForResponse' = FALSE
  /\ UNCHANGED <<config, mounted, isInitializing, isSending, error,
                 sessionManagerRef, call, disconnects, pendingSends, toast>>

\* manager.on('avatar.error', ...)
ErrorEvent(message) ==
  /\ Delivering
  /\ toast' = "error: Avatar error"
  /\ isWaitingForResponse' = FALSE
  /\ UNCHANGED <<config, mounted, messages, isInitializing, isSending, error,
                 sessionManagerRef, call, disconnects, pendingSends, clock>>

\* ---------------------------------------------------------- sendMessage
\* the emptiness test without trim()
SendIgnored_NoTrim(text) == text = EmptyStr \/ isSending

\* the early return without the isSending test
SendIgnored_NoSendingCheck(text) == Trim(text) = EmptyStr

\* if (!input.trim() || isSending) return;
SendIgnored(text) == Trim(text) = EmptyStr \/ isSending

\* the guard of sendMessage dropped
NotInitialized_Never == FALSE

\* if (!sessionManagerRef.current)
NotInitialized == sessionManagerRef = NoHandle

\* sendMessage up to `await sessionManagerRef.current.sendMessage(...)`;
\* text is the value of the input field when the handler runs
SendMessage(text) ==
  /\ mounted
  /\ IF SendIgnored(text)
       THEN UNCHANGED <<messages, isSending, isWaitingForResponse,
                        pendingSends, clock, toast>>
     ELSE IF NotInitialized
       THEN /\ toast' = "error: Session not initialized"
            /\ UNCHANGED <<messages, isSending, isWaitingForResponse,
                           pendingSends, clock>>
     ELSE /\ WithinBounds
          /\ \E t \in ClockReads :
               /\ clock' = t
               /\ messages' = Append(messages, Message(t, "user", Trim(text)))
          /\ isSending' = TRUE
          /\ isWaitingForResponse' = TRUE
          /\ pendingSends' = pendingSends + 1
          /\ UNCHANGED toast
  /\ UNCHANGED <<config, mounted, isInitializing, error, sessionManagerRef,
                 call, disconnects>>

\* the finally block also clearing awaitingResponse
ForwardOk_ClearsWaiting ==
  /\ pendingSends > 0
  /\ pendingSends' = pendingSends - 1
  /\ isSending' = SetState(isSending, FALSE)
  /\ isWaitingForResponse' = SetState(isWaitingForResponse, FALSE)
  /\ UNCHANGED <<config, mounted, messages, isInitializing, error,
                 sessionManagerRef, call, disconnects, clock, toast>>

\* the forward call resolved, without the finally block
ForwardOk_KeepsSending ==
  /\ pendingSends > 0
  /\ pendingSends' = pendingSends - 1
  /\ UNCHANGED <<config, mounted, messages, flags, error, sessionManagerRef,
                 call, disconnects, clock, toast>>

\* the forward call resolved: only the finally block runs
ForwardOk ==
  /\ pendingSends > 0
  /\ pendingSends' = pendingSends - 1
  /\ isSending' = SetState(isSending, FALSE)
  /\ UNCHANGED <<config, mounted, messages, isInitializing,
                 isWaitingForResponse, error, sessionManagerRef, call,
                 disconnects, clock, toast>>

\* the catch block also taking the user's message back out of the transcript
ForwardFail_Rollback ==
  /\ pendingSends > 0
  /\ pendingSends' = pendingSends - 1
  /\ toast' = "error: Failed to send message"
  /\ messages' = IF mounted /\ messages # <<>>
                   THEN SubSeq(messages, 1, Len(messages) - 1)
                   ELSE messages
  /\ isWaitingForResponse' = SetState(isWaitingForResponse, FALSE)
  /\ isSending' = SetState(isSending, FALSE)
  /\ UNCHANGED <<config, mounted, isInitializing, error, sessionManagerRef,
                 call, disconnects, clock>>

\* the forward call rejected: the catch block, then the finally block
ForwardFail ==
  /\ pendingSends > 0
  /\ pendingSends' = pendingSends - 1
  /\ toast' = "error: Failed to send message"
  /\ isWaitingForResponse' = SetState(isWaitingForResponse, FALSE)
  /\ isSending' = SetState(isSending, FALSE)
  /\ UNCHANGED <<config, mounted, messages, isInitializing, error,
                 sessionManagerRef, call, disconnects, clock>>

\* ------------------------------------------------------------- teardown
\* the component unmounts: the cleanup of the mount effect runs, and React
\* discards the component's state (every useState value); the ref object,
\* the pending promises and their continuations live on
Teardown ==
  /\ mounted
  /\ mounted' = FALSE
  /\ disconnects' = IF sessionManagerRef # NoHandle
                      THEN [disconnects EXCEPT ![sessionManagerRef] = @ + 1]
                      ELSE disconnects
  /\ messages' = <<>>
  /\ isInitializing' = FALSE
  /\ isSending' = FALSE
  /\ isWaitingForResponse' = FALSE
  /\ error' = None
  /\ UNCHANGED <<config, sessionManagerRef, call, pendingSends, clock, toast>>

Next ==
  \/ InitializeSession
  \/ \E i \in Calls : FetchOk(i)
  \/ \E i \in Calls, e \in BackendErrors : FetchFail(i, e)
  \/ \E i \in Calls : ConnectOk(i)
  \/ \E i \in Calls, err \in Thrown : ConnectFail(i, err)
  \/ \E st \in Statuses : StatusEvent(st)
  \/ \E ty \in InputTypes, x \in PayloadTexts : InputEvent(ty, x)
  \/ \E x \in PayloadTexts : ResponseEvent(x)
  \/ \E m \in ErrorTexts : ErrorEvent(m)
  \/ \E text \in Inputs : SendMessage(text)
  \/ ForwardOk
  \/ ForwardFail
  \/ Teardown

Spec == Init /\ [][Next]_vars

\* an awaited call settles: the continuation after `await fetch(...)`, after
\* `await manager.connect()` or after the forward call runs
Settle ==
  \/ \E i \in Calls : FetchOk(i)
  \/ \E i \in Calls, e \in BackendErrors : FetchFail(i, e)
  \/ \E i \in Calls : ConnectOk(i)
  \/ \E i \in Calls, err \in Thrown : ConnectFail(i, err)
  \/ ForwardOk
  \/ ForwardFail

\* the component with every awaited call settling in the end
FairSpec == Spec /\ WF_vars(Settle)

\* ------------------------------------------------- the SDK client singleton
\* the cache test with the cache never hit
SdkCached_Never == FALSE

\* if (!sdk) ... return sdk
SdkCached == sdk # None

\* getPlatformSDK()
GetPlatformSDK ==
  /\ sdkCalls < MaxGets
  /\ sdkCalls' = sdkCalls + 1
  /\ IF SdkCached
       THEN /\ sdkReturn' = [threw |-> FALSE, value |-> sdk]
            /\ UNCHANGED <<sdk, sdkBuilt>>
     ELSE IF ~Truthy(apiKey) \/ apiKey[1] = Lit("sk_xxxxx")
       THEN /\ sdkReturn' = [threw |-> TRUE, value |-> None]
            /\ UNCHANGED <<sdk, sdkBuilt>>
     ELSE /\ sdk' = Some([id |-> sdkBuilt + 1,
                          apiKey |-> apiKey[1],
                          baseUrl |-> OrDefault(apiUrl,
                                       Lit("https://api.soulcypher.ai"))])
          /\ sdkBuilt' = sdkBuilt + 1
          /\ sdkReturn' = [threw |-> FALSE, value |-> sdk']
  /\ UNCHANGED <<apiKey, DEMO_AVATAR_ID, apiUrl, controller>>

\* the environment the module reads is replaced between two calls
SetEnv(key, url) ==
  /\ <<key, url>> # <<apiKey, apiUrl>>
  /\ apiKey' = key
  /\ apiUrl' = url
  /\ UNCHANGED <<DEMO_AVATAR_ID, sdk, sdkBuilt, sdkCalls, sdkReturn,
                 controller>>

InitSdk ==
  /\ apiKey \in ApiKeys
  /\ apiUrl \in ApiUrls
  /\ DEMO_AVATAR_ID = Lit("your-avatar-id-here")
  /\ sdk = None
  /\ sdkBuilt = 0
  /\ sdkCalls = 0
  /\ sdkReturn = [threw |-> FALSE, value |-> None]
  /\ mounted = TRUE
  /\ messages = <<>>
  /\ isInitializing = FALSE
  /\ isSending = FALSE
  /\ isWaitingForResponse = FALSE
  /\ error = None
  /\ sessionManagerRef = NoHandle
  /\ call = [i \in Calls |-> "unused"]
  /\ disconnects = [i \in Calls |-> 0]
  /\ pendingSends = 0
  /\ clock = 0
  /\ toast = "none"

NextSdk ==
  \/ GetPlatformSDK
  \/ \E key \in ApiKeys, url \in ApiUrls : SetEnv(key, url)

\* calls of getPlatformSDK in one process, the environment changing between
SpecSdk == InitSdk /\ [][NextSdk]_vars

\* =================================================================== claims

\* C1: while the controller is mounted, the backend session-creation request
\* is issued at most once, however initializeSession invocations interleave
\* with the pending backend and connect calls.
C1_RequestAtMostOnce == mounted => RequestsIssued <= 1

\* C2 as stated: the continuation after connect() resolved leaves
\* initializing true; only a status=ready event clears it.
C2_NotClearedAtConnect ==
  [][\A i \in Calls : (ConnectOk(i) /\ mounted /\ isInitializing)
                        => isInitializing']_vars

\* C2 as amended: once connect has resolved and no initialize attempt is in
\* flight, initializing is false, whether or not a status=ready event was
\* processed.
C2_ClearedAtConnect ==
  (mounted /\ sessionManagerRef # NoHandle /\ InitInFlight = {})
    => ~isInitializing

C2_Witness ==
  /\ mounted
  /\ sessionManagerRef # NoHandle
  /\ InitInFlight = {}
  /\ toast = "success: Session initialized"
  /\ ~isInitializing

\* C3 as stated: a controller constructs at most one AvatarSessionManager
\* over its lifetime.
C3_AtMostOneHandle == HandlesConstructed <= 1

\* C3 as amended: while a Session Handle is retained no step starts a new
\* initialize attempt, so no handle is constructed by an initializeSession
\* invoked after a handle is retained.
C3_NoAttemptWhileRetained ==
  [][sessionManagerRef # NoHandle => RequestsIssued' = RequestsIssued]_vars

\* a retry after a failed connect constructed a second handle, and a further
\* initializeSession was refused
C3_Witness ==
  /\ sessionManagerRef # NoHandle
  /\ HandlesConstructed >= 2
  /\ \E i \in Calls : call[i] = "connectFailed"
  /\ toast = "info: Session already initialized"

\* C4: every manager whose connect() succeeded has received no disconnect()
\* before teardown and exactly one after it.
C4_DisconnectedOnceAtTeardown ==
  \A i \in Calls :
    call[i] = "done" => disconnects[i] = (IF mounted THEN 0 ELSE 1)

\* ------------------------------------------------- vocabulary of the claims
\* the text has a character that is not whitespace
HasText(t) == \E k \in 1..Len(t) : t[k] \notin {" ", "\t", "\n"}

\* c is t without its leading and trailing whitespace
IsStripped(c, t) ==
  /\ \E a, b \in 0..Len(t) :
       /\ a + b <= Len(t)
       /\ c = SubSeq(t, a + 1, Len(t) - b)
       /\ \A k \in 1..a : ~HasText(<<t[k]>>)
       /\ \A k \in (Len(t) - b + 1)..Len(t) : ~HasText(<<t[k]>>)
  /\ c # <<>> => HasText(<<c[1]>>) /\ HasText(<<c[Len(c)]>>)

\* the step appended exactly one Message with this role and content
Appended(role, content) ==
  /\ Len(messages') = Len(messages) + 1
  /\ SubSeq(messages', 1, Len(messages)) = messages
  /\ messages'[Len(messages')].role = role
  /\ messages'[Len(messages')].content = content

LastMessage == messages[Len(messages)]

\* C5: the forward call is issued only while a Session Handle is retained;
\* sendMessage with text that is not blank and no handle retained signals
\* not-initialized and leaves the transcript, sending and awaitingResponse
\* unchanged.
C5_NoForwardWithoutHandle ==
  [][/\ pendingSends' > pendingSends => sessionManagerRef # NoHandle
     /\ \A t \in Inputs :
          (SendMessage(t) /\ HasText(t) /\ sessionManagerRef = NoHandle)
            => /\ toast' = "error: Session not initialized"
               /\ UNCHANGED <<messages, isSending, isWaitingForResponse,
                              pendingSends>>]_vars

C5_Witness ==
  /\ mounted
  /\ sessionManagerRef = NoHandle
  /\ toast = "error: Session not initialized"
  /\ messages = <<>>
  /\ pendingSends = 0

\* C6: with the API key absent or equal to the placeholder sk_xxxxx the
\* configuration check is false and initializeSession issues no backend
\* request, constructs no handle and never sets initializing.
C6_UnconfiguredNeverStarts ==
  apiKey \in {None, Some(Lit("sk_xxxxx"))}
    => /\ ~isConfigured
       /\ RequestsIssued = 0
       /\ HandlesConstructed = 0
       /\ ~isInitializing

C6_Witness ==
  /\ apiKey \in {None, Some(Lit("sk_xxxxx"))}
  /\ toast = "error: Platform API key not configured"

\* C7: sendMessage with empty or whitespace-only text changes neither the
\* transcript nor any status flag and issues no forward call.
C7_BlankSendIsNoOp ==
  [][\A t \in Inputs :
       (SendMessage(t) /\ ~HasText(t))
         => UNCHANGED <<messages, isInitializing, isSending,
                        isWaitingForResponse, pendingSends>>]_vars

\* a blank sendMessage runs in a state where a text would be sent
C7_Witness ==
  /\ ENABLED SendMessage(<<" ">>)
  /\ sessionManagerRef # NoHandle
  /\ ~isSending
  /\ messages # <<>>
  /\ WithinBounds

\* C8 as stated: sendMessage with text t that is not blank, a handle retained
\* and no send in flight appends a user Message whose content is t, with the
\* forward call pending.
C8_AppendsTextAsGiven ==
  [][\A t \in Inputs :
       (SendMessage(t) /\ HasText(t) /\ sessionManagerRef # NoHandle
          /\ ~isSending)
         => /\ Appended("user", t)
            /\ pendingSends' = pendingSends + 1]_vars

\* C8 as amended: the content of the appended user Message is t without its
\* leading and trailing whitespace.
C8_AppendsTrimmedText ==
  [][\A t \in Inputs :
       (SendMessage(t) /\ HasText(t) /\ sessionManagerRef # NoHandle
          /\ ~isSending)
         => /\ Len(messages') = Len(messages) + 1
            /\ SubSeq(messages', 1, Len(messages)) = messages
            /\ messages'[Len(messages')].role = "user"
            /\ IsStripped(messages'[Len(messages')].content, t)
            /\ pendingSends' = pendingSends + 1
            /\ isSending' /\ isWaitingForResponse']_vars

C8_Witness ==
  /\ messages # <<>>
  /\ LastMessage.role = "user"
  /\ LastMessage.content = <<"h", "i">>
  /\ pendingSends = 1
  /\ isSending
  /\ isWaitingForResponse

\* C9 as stated: a response event with text x appends one assistant Message
\* with content x, the placeholder when x is absent, clears awaitingResponse
\* and changes nothing else.
C9_ResponseContentAsGiven ==
  [][\A x \in PayloadTexts :
       ResponseEvent(x)
         => /\ Appended("assistant",
                        IF x = None THEN ResponsePlaceholder ELSE x[1])
            /\ ~isWaitingForResponse'
            /\ UNCHANGED <<isSending, isInitializing, sessionManagerRef,
                           error, pendingSends>>]_vars

\* C9 as amended: the content is x when x is a non-empty text and the
\* placeholder when x is absent or the empty string.
C9_ResponseContentOrPlaceholder ==
  [][\A x \in PayloadTexts :
       ResponseEvent(x)
         => /\ Appended("assistant",
                        IF x = None \/ x = Some(EmptyStr)
                          THEN ResponsePlaceholder ELSE x[1])
            /\ ~isWaitingForResponse'
            /\ UNCHANGED <<isSending, isInitializing, sessionManagerRef,
                           error, pendingSends>>]_vars

\* a response arrived while the forward call of a send was pending
C9_Witness ==
  /\ Len(messages) >= 2
  /\ LastMessage.role = "assistant"
  /\ LastMessage.content = <<"h", "i">>
  /\ messages[Len(messages) - 1].role = "user"
  /\ ~isWaitingForResponse
  /\ isSending
  /\ pendingSends = 1

\* C10: a status event clears initializing when its status is ready and
\* leaves initializing, the transcript and the other flags unchanged for
\* every other status.
C10_StatusClearsOnlyOnReady ==
  [][\A st \in Statuses :
       StatusEvent(st)
         => /\ st = Some(Lit("ready")) => ~isInitializing'
            /\ st # Some(Lit("ready")) => UNCHANGED isInitializing
            /\ UNCHANGED <<messages, isSending, isWaitingForResponse>>]_vars

\* the first attempt is still connecting and initializing is already false
C10_Witness ==
  /\ mounted
  /\ RequestsIssued = 1
  /\ call[1] = "connect"
  /\ toast = "success: Avatar is ready!"
  /\ ~isInitializing

\* C11 as stated: on a controller that stays mounted, every step that takes
\* awaitingResponse from true to false is the processing of a response or
\* an error event.
C11_ClearedOnlyByEvents ==
  [][(isWaitingForResponse /\ ~isWaitingForResponse' /\ mounted')
       => \/ \E x \in PayloadTexts : ResponseEvent(x)
          \/ \E m \in ErrorTexts : ErrorEvent(m)]_vars

\* C11 as amended: such a step is the processing of a response event, of an
\* error event, or the catch block after the forward call failed; the
\* forward call resolving never clears awaitingResponse.
C11_ClearedByEventsOrSendFailure ==
  [][(isWaitingForResponse /\ ~isWaitingForResponse' /\ mounted')
       => \/ \E x \in PayloadTexts : ResponseEvent(x)
          \/ \E m \in ErrorTexts : ErrorEvent(m)
          \/ ForwardFail]_vars

\* the forward call failed and awaitingResponse went false with it
C11_Witness ==
  /\ mounted
  /\ toast = "error: Failed to send message"
  /\ ~isWaitingForResponse
  /\ ~isSending
  /\ pendingSends = 0
  /\ messages # <<>>
  /\ LastMessage.role = "user"

\* C12: over any sequence of getPlatformSDK calls at most one client is
\* constructed; once a client is cached it is never replaced and every call
\* returns it, whatever the configuration has become; a call that throws
\* caches nothing.
C12_SingleCachedClient ==
  [][/\ sdkBuilt' <= 1
     /\ sdk # None => sdk' = sdk
     /\ (sdkCalls' = sdkCalls + 1 /\ sdk # None)
          => /\ sdkReturn' = [threw |-> FALSE, value |-> sdk]
             /\ sdkBuilt' = sdkBuilt
     /\ (sdkCalls' = sdkCalls + 1 /\ sdkReturn'.threw)
          => /\ sdk' = None
             /\ sdkBuilt' = sdkBuilt]_vars

\* the cached client was returned with the key no longer configured
C12_Witness ==
  /\ sdk # None
  /\ sdkCalls >= 2
  /\ apiKey \in {None, Some(Lit("sk_xxxxx"))}
  /\ sdkReturn = [threw |-> FALSE, value |-> sdk]

\* C13: while the component is mounted, isSending is true exactly when a
\* forward call is pending, at most one forward call is pending at a time,
\* and a sendMessage run while one is pending changes nothing.
C13_SendingIffForwardPending ==
  [][/\ mounted' => /\ isSending' <=> pendingSends' > 0
                    /\ pendingSends' <= 1
     /\ (mounted /\ pendingSends > 0)
          => \A text \in Inputs : SendMessage(text) => UNCHANGED vars]_vars

\* a forward call is pending and there is room for a further message
C13_Witness ==
  /\ mounted /\ isSending /\ pendingSends = 1
  /\ sessionManagerRef # NoHandle
  /\ WithinBounds

\* C14 as stated: when an initializeSession run fails, at the backend request
\* or at connect, no handle is retained afterwards, isInitializing is false
\* and the error is recorded.
C14_FailedInitLeavesNoHandle ==
  [][\A i \in Calls :
       (/\ mounted
        /\ \/ \E errorData \in BackendErrors : FetchFail(i, errorData)
           \/ \E err \in Thrown : ConnectFail(i, err))
         => /\ sessionManagerRef' = NoHandle
            /\ ~isInitializing'
            /\ error' # None]_vars

\* C15: when the forward call of sendMessage fails, the transcript is left as
\* it is, the user's message still in it, the send error is surfaced and
\* isSending is false.
C15_FailedSendKeepsMessage ==
  [][(mounted /\ ForwardFail)
       => /\ messages' = messages
          /\ \E k \in DOMAIN messages' : messages'[k].role = "user"
          /\ toast' = "error: Failed to send message"
          /\ ~isSending']_vars

\* a send failed after a response had already been appended
C15_Witness ==
  /\ mounted
  /\ toast = "error: Failed to send message"
  /\ ~isSending /\ pendingSends = 0
  /\ Len(messages) = 2
  /\ messages[1].role = "user" /\ HasText(messages[1].content)
  /\ messages[2].role = "assistant"

\* C16: every step of the mounted component leaves the transcript as it is
\* or appends one message to it; no entry is removed, reordered or rewritten.
C16_TranscriptAppendOnly ==
  [][mounted'
       => \/ messages' = messages
          \/ /\ Len(messages') = Len(messages) + 1
             /\ SubSeq(messages', 1, Len(messages)) = messages]_vars

\* a transcript that grew twice
C16_Witness ==
  /\ mounted
  /\ Len(messages) >= 2
  /\ messages[1].role = "user"
  /\ messages[2].role = "user"

\* a response has been appended while the forward call is still pending
C17_ResponseBeforeForwardSettles ==
  /\ mounted
  /\ pendingSends = 1 /\ isSending
  /\ ~isWaitingForResponse
  /\ Len(messages) >= 2
  /\ messages[Len(messages) - 1].role = "user"
  /\ LastMessage.role = "assistant"

\* C17: when the response was processed while the forward call was pending
\* and the forward call then resolves, isWaitingForResponse stays false,
\* isSending becomes false and the transcript stays user then assistant.
C17_ForwardSettlesAfterResponse ==
  [][(C17_ResponseBeforeForwardSettles /\ ForwardOk)
       => /\ ~isWaitingForResponse'
          /\ ~isSending'
          /\ messages' = messages]_vars

\* the response, with no text, arrived before the forward call settled
C17_Witness ==
  /\ C17_ResponseBeforeForwardSettles
  /\ LastMessage.content = ResponsePlaceholder
  /\ ENABLED ForwardOk

\* C18: with every awaited call settling in the end, isInitializing once
\* true becomes false again, and isSending once true becomes false again.
C18_FlagsEventuallyClear ==
  /\ isInitializing ~> ~isInitializing
  /\ isSending ~> ~isSending

\* a send was forwarded and settled: both flags are down again, with the
\* response still outstanding
C18_Witness ==
  /\ mounted
  /\ ~isInitializing /\ ~isSending
  /\ InitInFlight = {} /\ pendingSends = 0
  /\ sessionManagerRef # NoHandle
  /\ Len(messages) = 1 /\ LastMessage.role = "user"
  /\ isWaitingForResponse
  /\ toast = "success: Session initialized"

\* C19 as stated: whenever isSending or isWaitingForResponse is true or the
\* transcript is non-empty, a handle is retained.
C19_ActivityOnlyWhenReady ==
  (isSending \/ isWaitingForResponse \/ messages # <<>>)
    => sessionManagerRef # NoHandle

\* C19 as amended: while mounted, isSending implies a retained handle;
\* isWaitingForResponse or a non-empty transcript implies only that a
\* manager has been constructed and its observers registered.
C19_ActivityOnlyAfterConstruction ==
  mounted
    => /\ isSending => sessionManagerRef # NoHandle
       /\ (isWaitingForResponse \/ messages # <<>>) => HandlesConstructed >= 1

\* a voice input was appended while connect had not resolved
C19_Witness ==
  /\ mounted
  /\ sessionManagerRef = NoHandle
  /\ \E i \in Calls : call[i] = "connect"
  /\ messages # <<>> /\ LastMessage.role = "user"
  /\ isWaitingForResponse

\* C20 as stated: the ids of the messages of the transcript are pairwise
\* distinct.
C20_DistinctIds ==
  \A j, k \in DOMAIN messages :
    j # k => messages[j].id # messages[k].id

====
